---- MODULE Spec2Model ----
(***************************************************************************)
(* BlendAI: the code validator and the sandboxed executor of               *)
(* src/code_executor.py (class CodeExecutor).                              *)
(*                                                                         *)
(* validate_code is a pure function of a syntax tree; execute_code is a    *)
(* sequential procedure that races against the threading.Timer started by  *)
(* timeout_context.  The host (Blender: scene data, undo stack, refresh)   *)
(* is reached through bpy only and is modelled by the three Host*          *)
(* operators.  The last part models the operators of src/operators.py      *)
(* that request code from the provider and that run the stored code.       *)
(***************************************************************************)
EXTENDS Naturals, Sequences, FiniteSets, TLC

(***************************************************************************)
(* Bounds of the model.                                                    *)
(***************************************************************************)
\* nesting depth of compound statements around the construct under test
MaxDepth == 1
\* host-state mutations one run of the candidate code performs
MaxMut == 1
\* print calls one run of the candidate code performs
MaxPrint == 2

(***************************************************************************)
(* Program constants.                                                      *)
(***************************************************************************)
execution_timeout == 30

(***************************************************************************)
(* Identifiers and string constants are sequences of pieces; each leading  *)
(* underscore is a piece of its own, so that str.startswith("__") is       *)
(* computed on the text and not looked up.                                 *)
(***************************************************************************)
Id(s) == <<s>>
Under1(s) == <<"_", s>>
Dunder(s) == <<"_", "_", s>>

startswith_dunder(s) == Len(s) >= 2 /\ s[1] = "_" /\ s[2] = "_"

(***************************************************************************)
(* Syntax trees, as ast.parse builds them.  A node is a record: its type,  *)
(* its identifier or constant value (id), the Python type of a constant's  *)
(* value (vtype) and its child nodes in the order ast.iter_child_nodes     *)
(* yields them (the order of the node class's _fields).                    *)
(***************************************************************************)
Node(t, i, v, k) == [type |-> t, id |-> i, vtype |-> v, kids |-> k]

Ctx(c) == Node(c, <<>>, "", <<>>)
Name(i) == Node("Name", i, "", <<Ctx("Load")>>)
Constant(v, t) == Node("Constant", v, t, <<>>)
Attribute(value, attr, c) == Node("Attribute", attr, "", <<value, Ctx(c)>>)
Call(f, a) == Node("Call", <<>>, "", <<f>> \o a)
UnaryNot(operand) == Node("UnaryOp", <<>>, "", <<Node("Not", <<>>, "", <<>>), operand>>)

Pass == Node("Pass", <<>>, "", <<>>)
Expr(v) == Node("Expr", <<>>, "", <<v>>)
Assign(target, v) == Node("Assign", <<>>, "", <<target, v>>)
Delete(target) == Node("Delete", <<>>, "", <<target>>)
Import == Node("Import", <<>>, "", <<Node("alias", Id("os"), "", <<>>)>>)
ImportFrom == Node("ImportFrom", Id("os"), "", <<Node("alias", Id("path"), "", <<>>)>>)
Global == Node("Global", Id("x"), "", <<>>)
Nonlocal == Node("Nonlocal", Id("x"), "", <<>>)
While(t, body) == Node("While", <<>>, "", <<t>> \o body)
If(t, body) == Node("If", <<>>, "", <<t>> \o body)
FunctionDef(body) == Node("FunctionDef", Id("f"), "", <<Node("arguments", <<>>, "", <<>>)>> \o body)
Module(body) == Node("Module", <<>>, "", body)

\* node.func, node.args (no keyword arguments in the model), node.test
func(node) == node.kids[1]
args(node) == Tail(node.kids)
test(node) == node.kids[1]

(***************************************************************************)
(* CodeExecutor.__init__ and the name sets of validate_code.               *)
(***************************************************************************)
allowed_modules ==
    { Id("bpy"), Id("bmesh"), Id("mathutils"), Id("math"), Id("random"),
      Id("numpy"), Id("json"), Id("re"), Id("time"), Id("datetime") }

allowed_builtins ==
    { Id("abs"), Id("all"), Id("any"), Id("bin"), Id("bool"), Id("callable"), Id("chr"),
      Id("complex"), Id("dict"), Id("dir"), Id("divmod"), Id("enumerate"), Id("filter"),
      Id("float"), Id("format"), Id("frozenset"), Id("getattr"), Id("hasattr"), Id("hash"),
      Id("hex"), Id("id"), Id("int"), Id("isinstance"), Id("issubclass"), Id("iter"),
      Id("len"), Id("list"), Id("map"), Id("max"), Id("min"), Id("next"), Id("object"),
      Id("oct"), Id("ord"), Id("pow"), Id("print"), Id("range"), Id("repr"),
      Id("reversed"), Id("round"), Id("set"), Id("slice"), Id("sorted"), Id("str"),
      Id("sum"), Id("tuple"), Id("type"), Id("zip") }

\* dangerous_names without 'dir'
dangerous_names_without_dir ==
    { Id("exec"), Id("eval"), Id("compile"), Id("open"), Id("input"), Id("raw_input"),
      Dunder("import__"), Id("globals"), Id("locals"), Id("vars"),
      Id("delattr"), Id("setattr") }

dangerous_names ==
    { Id("exec"), Id("eval"), Id("compile"), Id("open"), Id("input"), Id("raw_input"),
      Dunder("import__"), Id("globals"), Id("locals"), Id("vars"), Id("dir"),
      Id("delattr"), Id("setattr") }

suspicious_patterns == { Id("getattr"), Id("hasattr"), Id("setattr"), Id("delattr") }

(***************************************************************************)
(* validate_code.  A verdict is the pair (is_safe, message); a message is  *)
(* the concatenation of the pieces its f-string is made of.                *)
(***************************************************************************)
Verdict(ok, msg) == [is_safe |-> ok, message |-> msg]
NoVerdict == Verdict(FALSE, <<>>)

\* is_import, had line 57 named ast.Import alone
is_import_plain(node) == node.type = "Import"

\* line 57
is_import(node) == node.type \in {"Import", "ImportFrom"}

\* lines 61-63
is_dangerous_call(node) ==
    /\ node.type = "Call"
    /\ func(node).type = "Name"
    /\ func(node).id \in dangerous_names

\* first_arg, had line 68 read node.args[0] without asking whether there is
\* one: the node stands for the IndexError of the subscript
first_arg_unguarded(node) ==
    IF args(node) # <<>> THEN args(node)[1] ELSE Node("IndexError", <<>>, "", <<>>)

\* line 68: node.args[0] if node.args else None
first_arg(node) ==
    IF args(node) # <<>> THEN args(node)[1] ELSE Node("None", <<>>, "", <<>>)

\* lines 61-62 and 66-69
is_suspicious_call(node) ==
    /\ node.type = "Call"
    /\ func(node).type = "Name"
    /\ func(node).id \in suspicious_patterns
    /\ first_arg(node).type = "Constant"
    /\ first_arg(node).vtype = "str"
    /\ startswith_dunder(first_arg(node).id)

\* lines 73-74
is_dunder_attribute(node) == node.type = "Attribute" /\ startswith_dunder(node.id)

\* is_scope_declaration, had line 78 named ast.Global alone
is_global_declaration(node) == node.type = "Global"

\* line 78
is_scope_declaration(node) == node.type \in {"Global", "Nonlocal"}

\* is_while_true, had line 83 asked whether the constant is truthy
\* (node.test.value) instead of whether it is True
is_while_true_truthy(node) ==
    /\ node.type = "While"
    /\ test(node).type = "Constant"
    /\ test(node).id \notin {<<"False">>, <<"0">>, <<>>}

\* is_while_true, had lines 82-83 looked for the name True (ast.Name)
is_while_true_name(node) ==
    /\ node.type = "While"
    /\ test(node).type = "Name"
    /\ test(node).id = <<"True">>

\* lines 82-83: "value is True" holds of the bool True alone
is_while_true(node) ==
    /\ node.type = "While"
    /\ test(node).type = "Constant"
    /\ test(node).vtype = "bool"
    /\ test(node).id = <<"True">>

\* the body of the for loop, for one node: the verdict it returns, or
\* NoVerdict when the loop goes on to the next node
NodeCheck(node) ==
    IF is_import(node)
    THEN Verdict(FALSE, <<"Imports are not allowed!">>)
    ELSE IF is_dangerous_call(node)
    THEN Verdict(FALSE, <<"Usage of dangerous function '">> \o func(node).id
                        \o <<"' detected!">>)
    ELSE IF is_suspicious_call(node)
    THEN Verdict(FALSE, <<"Suspicious usage of '">> \o func(node).id
                        \o <<"' with dunder attribute detected!">>)
    ELSE IF is_dunder_attribute(node)
    THEN Verdict(FALSE, <<"Access to dunder attribute '">> \o node.id
                        \o <<"' is not allowed!">>)
    ELSE IF is_scope_declaration(node)
    THEN Verdict(FALSE, <<"Global and nonlocal declarations are not allowed!">>)
    ELSE IF is_while_true(node)
    THEN Verdict(FALSE, <<"Infinite 'while True' loops are not allowed for safety!">>)
    ELSE NoVerdict

\* walk, had line 55 used ast.iter_child_nodes: the direct children only
iter_child_nodes(todo) == IF todo = <<>> THEN <<>> ELSE Head(todo).kids

\* ast.walk: breadth first, the children of a node queued behind the nodes
\* already waiting
RECURSIVE walk(_)
walk(todo) ==
    IF todo = <<>> THEN <<>>
    ELSE <<Head(todo)>> \o walk(Tail(todo) \o Head(todo).kids)

\* the for loop over ast.walk(tree): the first verdict a node returns
RECURSIVE FirstVerdict(_)
FirstVerdict(nodes) ==
    IF nodes = <<>> THEN Verdict(TRUE, <<"Code appears safe">>)
    ELSE IF NodeCheck(Head(nodes)) # NoVerdict THEN NodeCheck(Head(nodes))
    ELSE FirstVerdict(Tail(nodes))

\* a source text is the outcome of ast.parse on it: a tree, or a SyntaxError
Source(ok, tree) == [parses |-> ok, tree |-> tree]

validate_code(code) ==
    IF ~code.parses
    THEN Verdict(FALSE, <<"Code could not be parsed: ", "invalid syntax">>)
    ELSE FirstVerdict(walk(<<code.tree>>))

(***************************************************************************)
(* The candidate codes of the model: a module of one or two statements,    *)
(* the last one a construct nested in up to MaxDepth compound statements   *)
(* (def, if, while x), the first one, when there is one, a statement that  *)
(* ast.walk visits before anything nested in the last.                     *)
(***************************************************************************)
X == Name(Id("x"))

CalleeNames ==
    { Id("exec"), Id("eval"), Id("compile"), Id("open"), Id("input"), Id("raw_input"),
      Dunder("import__"), Id("globals"), Id("locals"), Id("vars"), Id("dir"),
      Id("delattr"), Id("setattr"), Id("getattr"), Id("hasattr"), Id("print") }

ArgLists ==
    { <<>>, <<X>>, <<Constant(Dunder("class__"), "str")>>,
      <<X, Constant(Dunder("class__"), "str")>>, <<Constant(Id("data"), "str")>> }

AttrNames == { Dunder("class__"), <<"_", "_">>, Under1("private"), Id("data") }

WhileTests ==
    { Constant(<<"True">>, "bool"), Constant(<<"1">>, "int"),
      Constant(<<"True">>, "str"), X,
      UnaryNot(Constant(<<"False">>, "bool")) }

Constructs ==
    { Pass, Import, ImportFrom, Global, Nonlocal }
    \cup { Expr(Call(Name(f), a)) : f \in CalleeNames, a \in ArgLists }
    \cup { Expr(Call(Attribute(X, f, "Load"), <<>>)) : f \in {Id("eval"), Dunder("import__")} }
    \cup { Expr(Call(Name(Id("print")), <<Call(Name(Id("eval")), <<>>)>>)) }
    \cup { Expr(Attribute(X, a, "Load")) : a \in AttrNames }
    \cup { Assign(Attribute(X, a, "Store"), X) : a \in AttrNames }
    \cup { Delete(Attribute(X, a, "Del")) : a \in AttrNames }
    \cup { While(t, <<Pass>>) : t \in WhileTests }

Wrappers == {"def", "if", "while"}

Wrap(w, stmt) ==
    CASE w = "def" -> FunctionDef(<<stmt>>)
      [] w = "if" -> If(X, <<stmt>>)
      [] w = "while" -> While(X, <<stmt>>)

RECURSIVE Nested(_)
Nested(d) ==
    IF d = 0 THEN Constructs
    ELSE Nested(d - 1) \cup { Wrap(w, s) : w \in Wrappers, s \in Nested(d - 1) }

Firsts ==
    { Pass, Import, Global,
      Expr(Call(Name(Id("eval")), <<>>)),
      Expr(Attribute(X, Dunder("class__"), "Load")),
      While(Constant(<<"True">>, "bool"), <<Pass>>) }

Codes ==
    { Source(TRUE, Module(<<s>>)) : s \in Nested(MaxDepth) }
    \cup { Source(TRUE, Module(<<f, s>>)) : f \in Firsts, s \in Nested(MaxDepth) }
    \cup { Source(FALSE, Module(<<>>)) }

(***************************************************************************)
(* Exceptions.  str(ex) is a sequence of pieces, like every text here.     *)
(***************************************************************************)
Exc(c, t, o) == [cls |-> c, text |-> t, origin |-> o]
NoExc == Exc("None", <<>>, "")

\* the base class of each exception class (Python's builtin hierarchy)
Base(c) ==
    CASE c = "ValueError" -> "Exception"
      [] c = "AttributeError" -> "Exception"
      [] c = "RuntimeError" -> "Exception"
      [] c = "ImportError" -> "Exception"
      [] c = "SyntaxError" -> "Exception"
      [] c = "IndexError" -> "LookupError"
      [] c = "LookupError" -> "Exception"
      [] c = "TimeoutError" -> "OSError"
      [] c = "OSError" -> "Exception"
      [] c = "AIBackendError" -> "Exception"
      [] c = "Exception" -> "BaseException"
      [] c = "SystemExit" -> "BaseException"
      [] c = "KeyboardInterrupt" -> "BaseException"
      [] OTHER -> "object"

\* whether an except clause naming class k catches an exception of class c
RECURSIVE IsSubclass(_, _)
IsSubclass(c, k) ==
    IF c = k THEN TRUE
    ELSE IF c \in {"object", "None"} THEN FALSE
    ELSE IsSubclass(Base(c), k)

\* what a run of validated code can raise in the main thread: an ordinary
\* error, an AttributeError of the two kinds the hints are for, a
\* TimeoutError of a host call, and the two exits that are no Exception
\* (json.codecs.sys.exit() passes validate_code; Ctrl-C is delivered to the
\* main thread)
CodeExceptions ==
    { Exc("ValueError", <<"boom">>, "code"),
      Exc("AttributeError", <<"'Mesh' object ", "has no attribute 'data'">>, "code"),
      Exc("AttributeError", <<"'NoneType'", " object has no attribute 'x'">>, "code"),
      Exc("TimeoutError", <<"timed out">>, "code"),
      Exc("SystemExit", <<>>, "code"),
      Exc("KeyboardInterrupt", <<>>, "code") }

\* needle in text: a contiguous run of pieces
Contains(text, needle) ==
    \E i \in 0..Len(text) :
        /\ i + Len(needle) <= Len(text)
        /\ \A j \in 1..Len(needle) : text[i + j] = needle[j]

(***************************************************************************)
(* What validate_code raises instead of returning: NoExc when it returns.  *)
(***************************************************************************)
\* lines 39-42: the except clause around ast.parse
parse_raises(code) ==
    IF ~code.parses /\ ~IsSubclass("SyntaxError", "Exception")
    THEN Exc("SyntaxError", <<"invalid syntax">>, "validator")
    ELSE NoExc

\* lines 56-84, which stand in no try statement: the subscript of line 68
\* is the one expression of the loop body that can raise
node_raises(node) ==
    IF /\ node.type = "Call"
       /\ func(node).type = "Name"
       /\ func(node).id \notin dangerous_names
       /\ func(node).id \in suspicious_patterns
       /\ first_arg(node).type = "IndexError"
    THEN Exc("IndexError", <<"list index out of range">>, "validator")
    ELSE NoExc

\* the for loop: the first node whose check raises, if the loop gets there
RECURSIVE FirstRaise(_)
FirstRaise(nodes) ==
    IF nodes = <<>> THEN NoExc
    ELSE IF node_raises(Head(nodes)) # NoExc THEN node_raises(Head(nodes))
    ELSE IF NodeCheck(Head(nodes)) # NoVerdict THEN NoExc
    ELSE FirstRaise(Tail(nodes))

validate_raises(code) ==
    IF ~code.parses THEN parse_raises(code) ELSE FirstRaise(walk(<<code.tree>>))

(***************************************************************************)
(* The host, reached through bpy: the scene (its object count), the undo   *)
(* stack and the refresh.  begin-checkpoint records the scene, restore-    *)
(* checkpoint puts the last recorded scene back and keeps the checkpoint.  *)
(***************************************************************************)
HostUndoPush(stack, msg, state) == Append(stack, [message |-> msg, state |-> state])
HostUndo(stack) == stack[Len(stack)].state

(***************************************************************************)
(* State.                                                                  *)
(***************************************************************************)
VARIABLES
    code,            \* the argument of execute_code
    pc,              \* where execute_code stands
    verdict,         \* (is_safe, message) of line 117
    exec_globals,    \* the namespace of line 122
    old_stdout,      \* the local of line 142
    captured_output, \* the StringIO of line 143: what was written to it
    ret,             \* the value a return statement has computed
    exc,             \* the exception in flight in the main thread
    result,          \* what execute_code returned to its caller
    sys_stdout,      \* sys.stdout
    console,         \* what was written to the stream of before the call
    scene,           \* host state
    undo_stack,      \* host undo stack
    timer,           \* the threading.Timer of timeout_context
    timer_thread,    \* what became of the timer's thread
    entry,           \* host state and sys.stdout when execute_code was called
    log,             \* what the call did so far: host calls made, steps of the run
    self,            \* the CodeExecutor: the attributes __init__ sets
    calls,           \* which call of execute_code this is, names earlier runs bound
    ui,              \* the scene properties and preferences the operators use
    op               \* the operator whose execute is running, and how it ended

vars == <<ui, op, self, calls, code, pc, verdict, exec_globals, old_stdout, captured_output, ret, exc,
          result, sys_stdout, console, scene, undo_stack, timer, timer_thread,
          entry, log>>

NoGlobals == [names |-> {}, builtins |-> {}]
Result(s, m, o) == [success |-> s, message |-> m, output |-> o]
NoResult == Result(FALSE, <<>>, <<"None">>)
NoLog == [undo_push |-> 0, undo |-> 0, update |-> 0, mutate |-> 0, print |-> 0,
          printed |-> <<>>, ran |-> FALSE, raised |-> "None", exc |-> NoExc]

\* lines 19-31
init_self ==
    [allowed_modules |-> allowed_modules,
     allowed_builtins |-> allowed_builtins,
     execution_timeout |-> execution_timeout]

\* operators.py lines 548-589: the defaults of the scene properties;
\* preferences.py: the add-on preferences the operators read
NoUi ==
    [ai_prompt |-> <<>>, ai_generated_code |-> <<>>, ai_last_output |-> <<>>,
     ai_diff_summary |-> <<>>, ai_is_generating |-> FALSE,
     ai_provider |-> "openai", api_key |-> <<>>, enable_diff_summary |-> TRUE]

\* no operator is running: name of the operator, where its execute stands,
\* what it returned, and what it found when it began
NoOp ==
    [n |-> 1, runs |-> 0, name |-> "none", pc |-> "idle", ret |-> "None", called |-> FALSE,
     response |-> [asked |-> FALSE, raised |-> "None", text |-> <<>>],
     code0 |-> <<>>, log0 |-> <<>>]

FirstCall == [n |-> 1, bound |-> {}, undo |-> 0, failed |-> 0]

Streams == {"console", "logfile"}
InitScenes == {0}

Init ==
    /\ code \in Codes
    /\ pc = "idle"
    /\ verdict = NoVerdict
    /\ exec_globals = NoGlobals
    /\ old_stdout = "None"
    /\ captured_output = <<>>
    /\ ret = NoResult
    /\ exc = NoExc
    /\ result = NoResult
    /\ sys_stdout \in Streams
    /\ console = <<>>
    /\ scene \in InitScenes
    /\ undo_stack = <<[message |-> "Original", state |-> scene]>>
    /\ timer = [state |-> "unset", delay |-> 0]
    /\ timer_thread = "none"
    /\ entry = [scene |-> scene, stdout |-> sys_stdout]
    /\ log = NoLog
    /\ self = init_self
    /\ calls = FirstCall
    /\ ui = NoUi
    /\ op = NoOp

(***************************************************************************)
(* execute_code, statement by statement.                                   *)
(***************************************************************************)
\* Validate, had lines 118-119 been left out
ValidateWithoutReturn ==
    /\ pc = "idle"
    /\ verdict' = validate_code(code)
    /\ entry' = [scene |-> scene, stdout |-> sys_stdout]
    /\ result' = result
    /\ pc' = "build_ns"
    /\ UNCHANGED <<ui, op, self, calls, code, exec_globals, old_stdout, captured_output, ret, exc,
                   sys_stdout, console, scene, undo_stack, timer, timer_thread, log>>

\* lines 117-119: validate, and return at once when the code is not safe
Validate ==
    /\ pc = "idle"
    /\ entry' = [scene |-> scene, stdout |-> sys_stdout]
    /\ IF validate_raises(code) # NoExc
       THEN /\ exc' = validate_raises(code)
            /\ pc' = "raised"
            /\ UNCHANGED <<verdict, result>>
       ELSE /\ verdict' = validate_code(code)
            /\ exc' = exc
            /\ IF ~verdict'.is_safe
               THEN /\ result' = Result(FALSE, verdict'.message, <<>>)
                    /\ pc' = "returned"
               ELSE /\ result' = result
                    /\ pc' = "build_ns"
    /\ UNCHANGED <<ui, op, self, calls, code, exec_globals, old_stdout, captured_output, ret,
                   sys_stdout, console, scene, undo_stack, timer, timer_thread, log>>

\* lines 122-136: the restricted globals
BuildNamespace ==
    /\ pc = "build_ns"
    /\ exec_globals' =
           [names |-> { Id("bpy"), Id("bmesh"), Id("mathutils"), Id("math"),
                        Id("random"), Id("json"), Id("re"), Id("time"),
                        Id("datetime"), Id("safe_access"), Dunder("builtins__") },
            builtins |-> self.allowed_builtins]
    /\ pc' = "undo_push"
    /\ UNCHANGED <<ui, op, self, calls, code, verdict, old_stdout, captured_output, ret, exc, result,
                   sys_stdout, console, scene, undo_stack, timer, timer_thread,
                   entry, log>>

\* line 139
UndoPush ==
    /\ pc = "undo_push"
    /\ undo_stack' = HostUndoPush(undo_stack, "AI Code Execution", scene)
    /\ log' = [log EXCEPT !.undo_push = @ + 1]
    /\ pc' = "redirect"
    /\ UNCHANGED <<ui, op, self, calls, code, verdict, exec_globals, old_stdout, captured_output, ret,
                   exc, result, sys_stdout, console, scene, timer, timer_thread, entry>>

\* RedirectStdout, had line 143 been left out
RedirectStdoutWithoutBuffer ==
    /\ pc = "redirect"
    /\ old_stdout' = sys_stdout
    /\ captured_output' = <<>>
    /\ pc' = "timer"
    /\ UNCHANGED <<ui, op, self, calls, code, verdict, exec_globals, ret, exc, result, sys_stdout,
                   console, scene, undo_stack, timer, timer_thread, entry, log>>

\* lines 142-143
RedirectStdout ==
    /\ pc = "redirect"
    /\ old_stdout' = sys_stdout
    /\ sys_stdout' = "buffer"
    /\ captured_output' = <<>>
    /\ pc' = "timer"
    /\ UNCHANGED <<ui, op, self, calls, code, verdict, exec_globals, ret, exc, result, console, scene,
                   undo_stack, timer, timer_thread, entry, log>>

\* lines 95-96, entered from line 147
TimerStart ==
    /\ pc = "timer"
    /\ timer' = [state |-> "armed", delay |-> self.execution_timeout]
    /\ pc' = "exec"
    /\ UNCHANGED <<ui, op, self, calls, code, verdict, exec_globals, old_stdout, captured_output, ret,
                   exc, result, sys_stdout, console, scene, undo_stack,
                   timer_thread, entry, log>>

\* line 96, in the timer's own thread: the delay has passed and the thread
\* has found the timer not cancelled; from here on cancel() is too late
TimerExpire ==
    /\ timer.state = "armed"
    /\ timer' = [timer EXCEPT !.state = "expired"]
    /\ UNCHANGED <<ui, op, self, calls, code, pc, verdict, exec_globals, old_stdout,
                   captured_output, ret, exc, result, sys_stdout, console, scene,
                   undo_stack, timer_thread, entry, log>>

\* lines 92-93, in the timer's own thread: the handler raises there, which
\* ends that thread and nothing else
TimerFire ==
    /\ timer.state = "expired"
    /\ timer' = [timer EXCEPT !.state = "fired"]
    /\ timer_thread' = "TimeoutError"
    /\ UNCHANGED <<ui, op, self, calls, code, pc, verdict, exec_globals, old_stdout, captured_output,
                   ret, exc, result, sys_stdout, console, scene, undo_stack,
                   entry, log>>

\* line 100: Timer.cancel() stops a timer that is still waiting
timer_cancel(t) == IF t.state = "armed" THEN [t EXCEPT !.state = "cancelled"] ELSE t

\* line 148, one statement of the code that changes the scene
RunMutate ==
    /\ pc = "exec"
    /\ log.mutate < MaxMut
    /\ scene' = scene + 1
    /\ log' = [log EXCEPT !.mutate = @ + 1, !.ran = TRUE]
    /\ UNCHANGED <<ui, op, self, calls, code, pc, verdict, exec_globals, old_stdout, captured_output,
                   ret, exc, result, sys_stdout, console, undo_stack, timer,
                   timer_thread, entry>>

\* what the code's print calls write, in the order the code makes them:
\* print("hello"), print(2 + 2), print("hello"), ...
PrintTexts == <<"hello", "4">>

\* line 148, one print call of the code: the text, then the line end,
\* written to what sys.stdout is
RunPrint ==
    /\ pc = "exec"
    /\ log.print < MaxPrint
    /\ LET t == PrintTexts[(log.print % Len(PrintTexts)) + 1] IN
           /\ IF sys_stdout = "buffer"
              THEN /\ captured_output' = captured_output \o <<t, "\n">>
                   /\ console' = console
              ELSE /\ console' = console \o <<t, "\n">>
                   /\ captured_output' = captured_output
           /\ log' = [log EXCEPT !.print = @ + 1, !.printed = @ \o <<t, "\n">>,
                                 !.ran = TRUE]
    /\ UNCHANGED <<ui, op, self, calls, code, pc, verdict, exec_globals, old_stdout, ret, exc, result,
                   sys_stdout, scene, undo_stack, timer, timer_thread, entry>>

\* RunRaise, had timeout_context no try/finally around its yield
RunRaiseWithoutCancel ==
    /\ pc = "exec"
    /\ \E e \in CodeExceptions :
           /\ exc' = e
           /\ log' = [log EXCEPT !.ran = TRUE, !.raised = e.cls, !.exc = e]
    /\ pc' = "except"
    /\ UNCHANGED <<ui, op, self, calls, code, verdict, exec_globals, old_stdout,
                   captured_output, ret, result, sys_stdout, console, scene,
                   undo_stack, timer, timer_thread, entry>>

\* line 148, the code raises; lines 99-100 on the way out of the with block
RunRaise ==
    /\ pc = "exec"
    /\ \E e \in CodeExceptions :
           /\ exc' = e
           /\ log' = [log EXCEPT !.ran = TRUE, !.raised = e.cls, !.exc = e]
    /\ timer' = timer_cancel(timer)
    /\ pc' = "except"
    /\ UNCHANGED <<ui, op, self, calls, code, verdict, exec_globals, old_stdout, captured_output, ret,
                   result, sys_stdout, console, scene, undo_stack, timer_thread, entry>>

\* line 148, the code ends; lines 99-100 on the way out of the with block
RunComplete ==
    /\ pc = "exec"
    /\ timer' = timer_cancel(timer)
    /\ log' = [log EXCEPT !.ran = TRUE]
    /\ pc' = "after_exec"
    /\ UNCHANGED <<ui, op, self, calls, code, verdict, exec_globals, old_stdout, captured_output, ret,
                   exc, result, sys_stdout, console, scene, undo_stack,
                   timer_thread, entry>>

\* Commit, had line 151 been left out
CommitWithoutRefresh ==
    /\ pc = "after_exec"
    /\ ret' = Result(TRUE, <<"Code executed successfully.">>, captured_output)
    /\ pc' = "finally"
    /\ UNCHANGED <<ui, op, self, calls, code, verdict, exec_globals, old_stdout, captured_output, exc,
                   result, sys_stdout, console, scene, undo_stack, timer,
                   timer_thread, entry, log>>

\* lines 150-152
Commit ==
    /\ pc = "after_exec"
    /\ log' = [log EXCEPT !.update = @ + 1]
    /\ ret' = Result(TRUE, <<"Code executed successfully.">>, captured_output)
    /\ pc' = "finally"
    /\ UNCHANGED <<ui, op, self, calls, code, verdict, exec_globals, old_stdout, captured_output, exc,
                   result, sys_stdout, console, scene, undo_stack, timer,
                   timer_thread, entry>>

\* timeout_message, had line 157 returned str(ex) alone
timeout_message_bare(ex) == ex.text

\* f"Code execution timed out: {ex}"
timeout_message(ex) == <<"Code execution timed out: ">> \o ex.text

\* lines 154-157
HandleTimeout ==
    /\ pc = "except"
    /\ IsSubclass(exc.cls, "TimeoutError")
    /\ scene' = HostUndo(undo_stack)
    /\ log' = [log EXCEPT !.undo = @ + 1]
    /\ ret' = Result(FALSE, timeout_message(exc), captured_output)
    /\ exc' = NoExc
    /\ pc' = "finally"
    /\ UNCHANGED <<ui, op, self, calls, code, verdict, exec_globals, old_stdout, captured_output, result,
                   sys_stdout, console, undo_stack, timer, timer_thread, entry>>

\* traceback.format_exc()
format_exc(ex) == <<"Traceback (most recent call last):", ex.cls, ": ">> \o ex.text

\* lines 164-168
error_msg(ex) ==
    IF Contains(ex.text, <<"has no attribute 'data'">>)
    THEN ex.text \o <<"\nTip: Check if object has data before accessing (e.g., if obj.data: ...)">>
    ELSE IF Contains(ex.text, <<"'NoneType'">>)
    THEN ex.text \o <<"\nTip: Check for None values before accessing attributes">>
    ELSE ex.text

\* f"Error during code execution: {error_msg}\n\n{tb}"
error_message(ex) ==
    <<"Error during code execution: ">> \o error_msg(ex) \o <<"\n\n">> \o format_exc(ex)

\* HandleException, had line 161 been left out
HandleExceptionWithoutUndo ==
    /\ pc = "except"
    /\ ~IsSubclass(exc.cls, "TimeoutError")
    /\ IsSubclass(exc.cls, "Exception")
    /\ ret' = Result(FALSE, error_message(exc), captured_output)
    /\ exc' = NoExc
    /\ pc' = "finally"
    /\ UNCHANGED <<ui, op, self, calls, code, verdict, exec_globals, old_stdout,
                   captured_output, result, sys_stdout, console, scene, undo_stack,
                   timer, timer_thread, entry, log>>

\* lines 158-170
HandleException ==
    /\ pc = "except"
    /\ ~IsSubclass(exc.cls, "TimeoutError")
    /\ IsSubclass(exc.cls, "Exception")
    /\ scene' = HostUndo(undo_stack)
    /\ log' = [log EXCEPT !.undo = @ + 1]
    /\ ret' = Result(FALSE, error_message(exc), captured_output)
    /\ exc' = NoExc
    /\ pc' = "finally"
    /\ UNCHANGED <<ui, op, self, calls, code, verdict, exec_globals, old_stdout, captured_output, result,
                   sys_stdout, console, undo_stack, timer, timer_thread, entry>>

\* no except clause of lines 154-170 matches: the exception goes on
Unhandled ==
    /\ pc = "except"
    /\ ~IsSubclass(exc.cls, "TimeoutError")
    /\ ~IsSubclass(exc.cls, "Exception")
    /\ pc' = "finally"
    /\ UNCHANGED <<ui, op, self, calls, code, verdict, exec_globals, old_stdout, captured_output, ret,
                   exc, result, sys_stdout, console, scene, undo_stack, timer,
                   timer_thread, entry, log>>

\* Finally, had line 172 restored sys.__stdout__
FinallyRestoresConsole ==
    /\ pc = "finally"
    /\ sys_stdout' = "console"
    /\ IF exc # NoExc
       THEN pc' = "raised" /\ result' = result
       ELSE pc' = "returned" /\ result' = ret
    /\ UNCHANGED <<ui, op, self, calls, code, verdict, exec_globals, old_stdout, captured_output, ret,
                   exc, console, scene, undo_stack, timer, timer_thread, entry, log>>

\* lines 171-172, then the pending return or the pending exception
Finally ==
    /\ pc = "finally"
    /\ sys_stdout' = old_stdout
    /\ IF exc # NoExc
       THEN pc' = "raised" /\ result' = result
       ELSE pc' = "returned" /\ result' = ret
    /\ UNCHANGED <<ui, op, self, calls, code, verdict, exec_globals, old_stdout, captured_output, ret,
                   exc, console, scene, undo_stack, timer, timer_thread, entry, log>>

(***************************************************************************)
(* The host calls of execute_code can fail: a module of the namespace is   *)
(* missing, an operator's poll fails, the dependency graph update raises.  *)
(***************************************************************************)
HostError(t) == Exc("RuntimeError", <<t>>, "host")

\* lines 122-136 raise (outside the try statement)
BuildNamespaceFails ==
    /\ pc = "build_ns"
    /\ exc' = Exc("ImportError", <<"No module named 'bmesh'">>, "host")
    /\ pc' = "raised"
    /\ UNCHANGED <<ui, op, self, calls, code, verdict, exec_globals, old_stdout, captured_output, ret,
                   result, sys_stdout, console, scene, undo_stack, timer,
                   timer_thread, entry, log>>

\* line 139 raises (outside the try statement)
UndoPushFails ==
    /\ pc = "undo_push"
    /\ exc' = HostError("Operator bpy.ops.ed.undo_push.poll() failed")
    /\ log' = [log EXCEPT !.undo_push = @ + 1]
    /\ pc' = "raised"
    /\ UNCHANGED <<ui, op, self, calls, code, verdict, exec_globals, old_stdout, captured_output, ret,
                   result, sys_stdout, console, scene, undo_stack, timer,
                   timer_thread, entry>>

\* line 151 raises (inside the try statement, after the with block)
RefreshFails ==
    /\ pc = "after_exec"
    /\ exc' = HostError("view layer update failed")
    /\ log' = [log EXCEPT !.update = @ + 1, !.exc = exc']
    /\ pc' = "except"
    /\ UNCHANGED <<ui, op, self, calls, code, verdict, exec_globals, old_stdout, captured_output, ret,
                   result, sys_stdout, console, scene, undo_stack, timer,
                   timer_thread, entry>>

\* line 156 or line 161 raises (inside an except clause)
UndoFails ==
    /\ pc = "except"
    /\ IsSubclass(exc.cls, "Exception")
    /\ exc' = HostError("Operator bpy.ops.ed.undo.poll() failed")
    /\ log' = [log EXCEPT !.undo = @ + 1]
    /\ pc' = "finally"
    /\ UNCHANGED <<ui, op, self, calls, code, verdict, exec_globals, old_stdout, captured_output, ret,
                   result, sys_stdout, console, scene, undo_stack, timer,
                   timer_thread, entry>>

Next ==
    \/ Validate
    \/ BuildNamespace
    \/ UndoPush
    \/ RedirectStdout
    \/ TimerStart
    \/ TimerExpire
    \/ TimerFire
    \/ RunMutate
    \/ RunPrint
    \/ RunRaise
    \/ RunComplete
    \/ Commit
    \/ HandleTimeout
    \/ HandleException
    \/ Unhandled
    \/ Finally

Spec == Init /\ [][Next]_vars

NextHostFault ==
    \/ Next
    \/ BuildNamespaceFails
    \/ UndoPushFails
    \/ RefreshFails
    \/ UndoFails

\* the same program on a host whose calls can fail
SpecHostFault == Init /\ [][NextHostFault]_vars

NextRefreshFault ==
    \/ Next
    \/ RefreshFails

\* the same program on a host whose view_layer.update() can fail and whose
\* other calls succeed
SpecRefreshFault == Init /\ [][NextRefreshFault]_vars

(***************************************************************************)
(* Properties.                                                             *)
(***************************************************************************)
\* every node of a tree, at any depth
RECURSIVE AllNodes(_)
AllNodes(n) == {n} \cup UNION { AllNodes(n.kids[i]) : i \in 1..Len(n.kids) }

\* the nodes of the code in the order validate_code visits them
Visited == walk(<<code.tree>>)

\* a node that one of the rejection rules matches
Violation(n) ==
    \/ is_import(n)
    \/ is_dangerous_call(n)
    \/ is_suspicious_call(n)
    \/ is_dunder_attribute(n)
    \/ is_scope_declaration(n)
    \/ is_while_true(n)

NoEarlierViolation(W, i) == \A j \in 1..(i - 1) : ~Violation(W[j])

Validated == pc # "idle"
Ended == pc \in {"returned", "raised"}
InsideRedirect == pc \in {"timer", "exec", "after_exec", "except", "finally"}
DunderName(s) == Len(s) >= 2 /\ SubSeq(s, 1, 2) = <<"_", "_">>
IsNestedIn(inner, outerType) ==
    \E n \in AllNodes(code.tree) : n.type = outerType /\ inner \in AllNodes(n)

\* C1: for code that validate_code rejects, execute_code returns
\* (False, the validator's reason, "") and has built no namespace, pushed no
\* undo checkpoint, not redirected sys.stdout, started no timer, run nothing,
\* called neither undo nor view_layer.update
C1_RejectedCodeTouchesNothing ==
    LET v == validate_code(code) IN
    (Validated /\ ~v.is_safe) =>
        /\ pc = "returned"
        /\ result = Result(FALSE, v.message, <<>>)
        /\ exec_globals = NoGlobals
        /\ log = NoLog
        /\ undo_stack = <<[message |-> "Original", state |-> entry.scene]>>
        /\ old_stdout = "None"
        /\ sys_stdout = entry.stdout
        /\ timer.state = "unset"
        /\ scene = entry.scene

C1_Witness ==
    /\ pc = "returned"
    /\ code.parses
    /\ result = Result(FALSE, <<"Imports are not allowed!">>, <<>>)
    /\ log = NoLog

\* C2: a validated code whose run raises, after any number of scene changes,
\* ends with execute_code returning a failed result and the scene as it was
\* at the call
C2_RaisingRunIsRolledBack ==
    (Ended /\ log.raised # "None") =>
        /\ pc = "returned"
        /\ ~result.success
        /\ scene = entry.scene

\* C3: a run still in progress when the timer fires (a run that raises
\* nothing of its own) is aborted: execute_code returns a failed result
\* saying the execution timed out, with the output captured so far and the
\* scene as it was at the call; the run does not go on to completion and
\* execute_code does not return success
C3_TimeoutAbortsRun ==
    (Ended /\ timer.state = "fired" /\ log.raised = "None") =>
        /\ pc = "returned"
        /\ ~result.success
        /\ SubSeq(result.message, 1, 1) = <<"Code execution timed out: ">>
        /\ result.output = captured_output
        /\ scene = entry.scene

\* C4: no exception raised by the candidate code reaches the caller of
\* execute_code, whatever its class
C4_NoCodeExceptionEscapes == ~(pc = "raised" /\ exc.origin = "code")

\* C5: on every exit path sys.stdout is the stream it was before the call,
\* and the buffer is sys.stdout only between the redirect and the end of
\* the call
C5_StdoutRestored ==
    IF InsideRedirect THEN sys_stdout = "buffer" ELSE sys_stdout = entry.stdout

C5_Witness ==
    /\ pc = "raised"
    /\ exc = HostError("Operator bpy.ops.ed.undo.poll() failed")
    /\ old_stdout = "logfile"
    /\ sys_stdout = "logfile"

\* a reason that mentions imports: the import rule's own, or one that names
\* the function __import__
MentionsImports(msg) ==
    \E i \in 1..Len(msg) : msg[i] \in {"Imports are not allowed!", "import__"}

\* C6 as claimed: code with an import statement, of either form and at any
\* depth, is rejected with a reason that mentions imports
C6_ImportReasonMentionsImports ==
    (Validated /\ code.parses
       /\ \E n \in AllNodes(code.tree) : n.type \in {"Import", "ImportFrom"}) =>
        /\ ~verdict.is_safe
        /\ MentionsImports(verdict.message)

\* C6 as amended: code with an import statement, of either form and at any
\* depth, is rejected; the reason is "Imports are not allowed!" when no node
\* visited before the import matches another rule
C6_ImportRejected ==
    (Validated /\ code.parses) =>
        LET W == Visited IN
        \A i \in 1..Len(W) :
            W[i].type \in {"Import", "ImportFrom"} =>
                /\ ~verdict.is_safe
                /\ NoEarlierViolation(W, i) =>
                       verdict.message = <<"Imports are not allowed!">>

C6_Witness ==
    /\ pc = "returned"
    /\ IsNestedIn(ImportFrom, "While")
    /\ verdict = Verdict(FALSE, <<"Imports are not allowed!">>)

\* the deny-list of the claim
DeniedCallees ==
    { <<"exec">>, <<"eval">>, <<"compile">>, <<"open">>, <<"input">>, <<"raw_input">>,
      <<"_", "_", "import__">>, <<"globals">>, <<"locals">>, <<"vars">>, <<"dir">>,
      <<"delattr">>, <<"setattr">> }

\* C7: in parseable code with no earlier-visited violation, a call of a bare
\* name of the deny-list is rejected with a reason that contains the name,
\* whatever the arguments
C7_DeniedCallRejectedByName ==
    (Validated /\ code.parses) =>
        LET W == Visited IN
        \A i \in 1..Len(W) :
            ( /\ W[i].type = "Call"
              /\ func(W[i]).type = "Name"
              /\ func(W[i]).id \in DeniedCallees
              /\ NoEarlierViolation(W, i) ) =>
                /\ ~verdict.is_safe
                /\ Contains(verdict.message, func(W[i]).id)

C7_Witness ==
    /\ pc = "returned"
    /\ IsNestedIn(Call(Name(Id("dir")), <<X, Constant(Dunder("class__"), "str")>>), "FunctionDef")
    /\ result.message = <<"Usage of dangerous function '", "dir", "' detected!">>

\* C8: parseable code with an attribute access whose name starts with "__",
\* in load, store or delete position and at any depth, is rejected
C8_DunderAttributeRejected ==
    (Validated /\ code.parses
       /\ \E n \in AllNodes(code.tree) : n.type = "Attribute" /\ DunderName(n.id)) =>
        ~verdict.is_safe

C8_Witness ==
    /\ pc = "returned"
    /\ IsNestedIn(Delete(Attribute(X, <<"_", "_">>, "Del")), "If")
    /\ ~result.success
    /\ Len(code.tree.kids) = 1

\* C9: parseable code with a while loop whose condition is the constant
\* True, at any depth, is rejected, and execute_code never runs it
C9_WhileTrueRejectedNeverRun ==
    (Validated /\ code.parses
       /\ \E n \in AllNodes(code.tree) :
              n.type = "While" /\ test(n) = Constant(<<"True">>, "bool")) =>
        /\ ~verdict.is_safe
        /\ pc = "returned"
        /\ ~log.ran

C9_Witness ==
    /\ pc = "returned"
    /\ IsNestedIn(While(Constant(<<"True">>, "bool"), <<Pass>>), "FunctionDef")
    /\ Len(code.tree.kids) = 1
    /\ result = Result(FALSE, <<"Infinite 'while True' loops are not allowed for safety!">>, <<>>)

ScopeReason == <<"Global and nonlocal declarations are not allowed!">>

\* C10 as claimed: code with a global or nonlocal declaration, at any depth,
\* is rejected with a reason naming global/nonlocal declarations
C10_ScopeReasonNamesDeclaration ==
    (Validated /\ code.parses
       /\ \E n \in AllNodes(code.tree) : n.type \in {"Global", "Nonlocal"}) =>
        /\ ~verdict.is_safe
        /\ verdict.message = ScopeReason

\* C10 as amended: code with a global or nonlocal declaration, at any depth,
\* is rejected; the reason names global/nonlocal declarations when no node
\* visited before the declaration matches another rule
C10_ScopeDeclarationRejected ==
    (Validated /\ code.parses) =>
        LET W == Visited IN
        \A i \in 1..Len(W) :
            W[i].type \in {"Global", "Nonlocal"} =>
                /\ ~verdict.is_safe
                /\ NoEarlierViolation(W, i) => verdict.message = ScopeReason

C10_Witness ==
    /\ pc = "returned"
    /\ IsNestedIn(Nonlocal, "FunctionDef")
    /\ verdict = Verdict(FALSE, ScopeReason)

\* the attribute-reflection helpers of the claims
ReflectionHelpers == { <<"getattr">>, <<"hasattr">>, <<"setattr">>, <<"delattr">> }

\* a call of a reflection helper by bare name that names a dunder attribute
\* with a string literal, as in getattr(obj, "__class__")
NamesDunderLiteral(n) ==
    /\ n.type = "Call"
    /\ func(n).type = "Name"
    /\ func(n).id \in ReflectionHelpers
    /\ \E i \in 1..Len(args(n)) :
           /\ args(n)[i].type = "Constant"
           /\ args(n)[i].vtype = "str"
           /\ DunderName(args(n)[i].id)

\* C11: every call of getattr, hasattr, setattr or delattr by bare name that
\* names a dunder attribute with a string literal is rejected
C11_ReflectiveDunderRejected ==
    (Validated /\ code.parses
       /\ \E n \in AllNodes(code.tree) : NamesDunderLiteral(n)) =>
        ~verdict.is_safe

\* a node that one of the six rejection rules of the claim matches
MatchesRule(n) ==
    \/ n.type \in {"Import", "ImportFrom"}
    \/ n.type = "Call" /\ func(n).type = "Name" /\ func(n).id \in DeniedCallees
    \/ NamesDunderLiteral(n)
    \/ n.type = "Attribute" /\ DunderName(n.id)
    \/ n.type \in {"Global", "Nonlocal"}
    \/ n.type = "While" /\ test(n) = Constant(<<"True">>, "bool")

\* C12: validate_code returns (True, "Code appears safe") exactly when the
\* code parses and no node of its tree matches a rejection rule; in every
\* other case it returns (False, reason)
C12_SafeIffNoRuleMatches ==
    Validated =>
        IF code.parses /\ \A n \in AllNodes(code.tree) : ~MatchesRule(n)
        THEN verdict = Verdict(TRUE, <<"Code appears safe">>)
        ELSE ~verdict.is_safe /\ verdict.message # <<>>

\* C13: validate_code never raises: for every input, unparseable text and
\* getattr/hasattr calls with no argument or a non-constant argument
\* included, it returns a (bool, string) verdict, and for unparseable text a
\* rejection whose reason reports the parse failure
C13_ValidateNeverRaises ==
    Validated =>
        /\ ~(pc = "raised" /\ exc.origin = "validator")
        /\ verdict.is_safe \in BOOLEAN
        /\ verdict.message # <<>>
        /\ ~code.parses =>
               /\ ~verdict.is_safe
               /\ verdict.message[1] = "Code could not be parsed: "

C13_Witness ==
    /\ pc = "build_ns"
    /\ Expr(Call(Name(<<"hasattr">>), <<>>)) \in AllNodes(code.tree)
    /\ verdict = Verdict(TRUE, <<"Code appears safe">>)

C15_CapturedOutputIsWhatWasPrinted ==
    /\ (pc = "returned" /\ result.success) => result.output = log.printed
    /\ console = <<>>

C15_Witness ==
    /\ pc = "returned"
    /\ result.success
    /\ log.print = 2
    /\ result.output = <<"hello", "\n", "4", "\n">>

Rejected == ~verdict.is_safe /\ log.undo_push = 0 /\ ~log.ran
RolledBack == log.ran /\ log.raised # "None" /\ log.undo = 1
Committed == log.ran /\ log.raised = "None" /\ log.update = 1

\* C16: every call goes validate, build namespace, push checkpoint, run, no
\* stage before its predecessor has finished, and ends in exactly one of
\* Rejected (no checkpoint, no run), RolledBack (after a raise or a timeout,
\* undo performed) and Committed (normal completion, refresh performed)
C16_OneTerminalOutcomeInStageOrder ==
    /\ exec_globals # NoGlobals => verdict.is_safe
    /\ log.undo_push > 0 => exec_globals # NoGlobals
    /\ log.ran => log.undo_push = 1
    /\ (log.undo > 0 \/ log.update > 0) => log.ran
    /\ Ended =>
           /\ Rejected \/ RolledBack \/ Committed
           /\ ~(Rejected /\ RolledBack)
           /\ ~(Rejected /\ Committed)
           /\ ~(RolledBack /\ Committed)

\* C17: no execution snapshot outlives the call that took it: once
\* execute_code has returned, on the success path and on the failure paths,
\* the "AI Code Execution" checkpoint it pushed is no longer on the host's
\* undo stack
C17_CheckpointDiscardedOnReturn ==
    pc = "returned" =>
        \A i \in 1..Len(undo_stack) : undo_stack[i].message # "AI Code Execution"

(***************************************************************************)
(* execute_code called again and again on one CodeExecutor.                *)
(***************************************************************************)
MaxCalls == 2

SafeAccess == Name(Id("safe_access"))
SelfOf(f) == Call(Name(f), <<SafeAccess, Constant(Dunder("self__"), "str")>>)

\* y = 5
\* safe_access(safe_access, "__self__").execution_timeout = 0
\* getattr(safe_access, "__self__").execution_timeout = 0
\* safe_access.__self__.execution_timeout = 0
CallCodes ==
    { Source(TRUE, Module(<<Assign(Name(Id("y")), Constant(<<"5">>, "int"))>>)),
      Source(TRUE, Module(<<Assign(Attribute(SelfOf(Id("safe_access")),
                                            Id("execution_timeout"), "Store"),
                                  Constant(<<"0">>, "int"))>>)),
      Source(TRUE, Module(<<Assign(Attribute(SelfOf(Id("getattr")),
                                            Id("execution_timeout"), "Store"),
                                  Constant(<<"0">>, "int"))>>)),
      Source(TRUE, Module(<<Assign(Attribute(Attribute(SafeAccess, Dunder("self__"), "Load"),
                                            Id("execution_timeout"), "Store"),
                                  Constant(<<"0">>, "int"))>>)) }

InitCalls ==
    /\ code \in CallCodes
    /\ pc = "idle"
    /\ verdict = NoVerdict
    /\ exec_globals = NoGlobals
    /\ old_stdout = "None"
    /\ captured_output = <<>>
    /\ ret = NoResult
    /\ exc = NoExc
    /\ result = NoResult
    /\ sys_stdout \in Streams
    /\ console = <<>>
    /\ scene \in InitScenes
    /\ undo_stack = <<[message |-> "Original", state |-> scene]>>
    /\ timer = [state |-> "unset", delay |-> 0]
    /\ timer_thread = "none"
    /\ entry = [scene |-> scene, stdout |-> sys_stdout]
    /\ log = NoLog
    /\ self = init_self
    /\ calls = FirstCall
    /\ ui = NoUi
    /\ op = NoOp

\* line 148, an assignment of the code to a top-level name: exec binds it in
\* the dict it was given
RunBind ==
    /\ pc = "exec"
    /\ \E n \in AllNodes(code.tree) :
           /\ n.type = "Assign"
           /\ n.kids[1].type = "Name"
           /\ n.kids[1].id \notin exec_globals.names
           /\ exec_globals' = [exec_globals EXCEPT !.names = @ \cup {n.kids[1].id}]
           /\ calls' = [calls EXCEPT !.bound = @ \cup {n.kids[1].id}]
    /\ log' = [log EXCEPT !.ran = TRUE]
    /\ UNCHANGED <<ui, op, self, code, pc, verdict, old_stdout, captured_output, ret, exc,
                   result, sys_stdout, console, scene, undo_stack, timer,
                   timer_thread, entry>>

\* lines 102-109 and 133: safe_access is the bound method
\* self.safe_object_access, and both it and the builtin getattr hand out any
\* attribute by name, __self__ of the bound method included
ReachesSelf(n) ==
    /\ n.type = "Call"
    /\ func(n).type = "Name"
    /\ func(n).id \in {Id("safe_access"), Id("getattr")}
    /\ args(n) = <<SafeAccess, Constant(Dunder("self__"), "str")>>

\* line 148, a statement of the code that assigns to an attribute of the
\* CodeExecutor it has reached
RunReachSelf ==
    /\ pc = "exec"
    /\ \E n \in AllNodes(code.tree) :
           /\ n.type = "Assign"
           /\ n.kids[1].type = "Attribute"
           /\ ReachesSelf(n.kids[1].kids[1])
           /\ n.kids[1].id = Id("execution_timeout")
           /\ self.execution_timeout # 0
           /\ self' = [self EXCEPT !.execution_timeout = 0]
    /\ log' = [log EXCEPT !.ran = TRUE]
    /\ UNCHANGED <<ui, op, calls, code, pc, verdict, exec_globals, old_stdout,
                   captured_output, ret, exc, result, sys_stdout, console, scene,
                   undo_stack, timer, timer_thread, entry>>

\* 1 for a call whose code passed validation and whose run ended by an
\* exception or with the timer fired, 0 for every other call
FailedRun ==
    IF verdict.is_safe /\ log.ran /\ (log.raised # "None" \/ timer.state \in {"expired", "fired"})
    THEN 1 ELSE 0

\* the caller has the result, or the exception, and calls execute_code again
\* with the same code
NextCall ==
    /\ pc \in {"returned", "raised"}
    /\ calls.n < MaxCalls
    /\ calls' = [calls EXCEPT !.n = @ + 1,
                              !.undo = @ + log.undo,
                              !.failed = @ + FailedRun]
    /\ pc' = "idle"
    /\ verdict' = NoVerdict
    /\ exec_globals' = NoGlobals
    /\ old_stdout' = "None"
    /\ captured_output' = <<>>
    /\ ret' = NoResult
    /\ exc' = NoExc
    /\ result' = NoResult
    /\ timer' = [state |-> "unset", delay |-> 0]
    /\ timer_thread' = "none"
    /\ entry' = [scene |-> scene, stdout |-> sys_stdout]
    /\ log' = NoLog
    /\ UNCHANGED <<ui, op, self, code, sys_stdout, console, scene, undo_stack>>

NextCalls ==
    \/ Next
    \/ RunBind
    \/ RunReachSelf
    \/ NextCall

SpecCalls == InitCalls /\ [][NextCalls]_vars

\* C18: execute_code keeps no memory between calls: each successful call
\* applies the host effect of its run (the same code twice: twice), each
\* call builds a fresh namespace in which no name an earlier run bound is
\* defined, and no call changes allowed_modules, allowed_builtins or
\* execution_timeout
C18_NoMemoryBetweenCalls ==
    /\ (pc = "returned" /\ result.success) => scene = entry.scene + log.mutate
    /\ pc = "undo_push" => exec_globals.names \cap calls.bound = {}
    /\ self = init_self

\* C19: the namespace the code is run in exposes only what the manifest
\* lists: the keys of its builtins table are exactly allowed_builtins, and
\* every other top-level name bound before the code runs is a module name
\* in allowed_modules
C19_NamespaceWithinManifest ==
    pc \in {"undo_push", "redirect", "timer"} =>
        /\ exec_globals.builtins = self.allowed_builtins
        /\ \A name \in exec_globals.names \ {Dunder("builtins__")} :
               name \in self.allowed_modules

RunTimePrefixes == {"Error during code execution: ", "Code execution timed out: "}

\* C20: the message of a failed result tells the two failure classes apart:
\* the message of a run-time failure starts with "Error during code
\* execution:" or "Code execution timed out:", and the message of a
\* validation rejection starts with neither
C20_FailureClassToldByPrefix ==
    (pc = "returned" /\ ~result.success) =>
        /\ result.message # <<>>
        /\ verdict.is_safe <=> result.message[1] \in RunTimePrefixes

C20_Witness ==
    /\ pc = "returned"
    /\ ~result.success
    /\ verdict.is_safe
    /\ log.raised = "TimeoutError"
    /\ result.message[1] = "Code execution timed out: "

\* C21: in every call that passes validation undo_push is called exactly
\* once and before the first statement of the code runs; undo is called
\* exactly once if the run ends by exception or timeout and never if it
\* succeeds; over any sequence of calls the number of undo calls equals the
\* number of failed runs that passed validation
C21_CheckpointCallsMatchOutcomes ==
    /\ log.undo_push <= 1
    /\ log.ran => log.undo_push = 1
    /\ (Ended /\ verdict.is_safe) =>
           /\ log.undo_push = 1
           /\ log.undo = FailedRun
    /\ Ended => calls.undo + log.undo = calls.failed + FailedRun

Hints ==
    { <<"\nTip: Check if object has data before accessing (e.g., if obj.data: ...)">>,
      <<"\nTip: Check for None values before accessing attributes">> }

HintPatterns == { <<"has no attribute 'data'">>, <<"'NoneType'">> }

\* C22: when the run raises after having printed, the failed result's
\* captured output is exactly the text printed before the raise, its message
\* contains the exception text and the formatted traceback, and a hint is in
\* the message only when the exception text contains "has no attribute
\* 'data'" or "'NoneType'"
C22_FailedResultCarriesOutputAndTraceback ==
    (pc = "returned" /\ ~result.success /\ log.raised # "None" /\ log.print > 0) =>
        /\ result.output = log.printed
        /\ Contains(result.message, log.exc.text)
        /\ Contains(result.message, format_exc(log.exc))
        /\ (\E h \in Hints : Contains(result.message, h)) =>
               \E pat \in HintPatterns : Contains(log.exc.text, pat)

\* validate_code has returned and nothing else of execute_code has run
JustValidated == pc = "build_ns" \/ (pc = "returned" /\ ~verdict.is_safe)

TrueConstant == Constant(<<"True">>, "bool")
WhileReason == <<"Infinite 'while True' loops are not allowed for safety!">>

\* a while loop whose condition is not the boolean constant True
OtherWhile(n) == n.type = "While" /\ test(n) # TrueConstant

\* C23: the infinite-loop rule matches the boolean constant True alone: the
\* loop reason is given only to code with a "while True", and code whose
\* only suspect construct is a loop on another condition (while 1, while
\* "True", while not False, while x) is accepted
C23_OnlyWhileTrueIsRejected ==
    (JustValidated /\ code.parses) =>
        LET nodes == AllNodes(code.tree) IN
        /\ verdict.message = WhileReason =>
               \E n \in nodes : n.type = "While" /\ test(n) = TrueConstant
        /\ ( /\ \E n \in nodes : OtherWhile(n)
             /\ \A n \in nodes : ~MatchesRule(n) ) =>
               verdict = Verdict(TRUE, <<"Code appears safe">>)

C23_Witness ==
    /\ pc = "build_ns"
    /\ code.tree = Module(<<While(Constant(<<"1">>, "int"), <<Pass>>)>>)
    /\ verdict.is_safe

\* C24: the validator's deny-list and the builtins table of the namespace
\* are disjoint: no name rejected as a dangerous bare-name call is a key of
\* the builtins exposed to the code, so a call by name of any exposed builtin
\* passes validation
C24_DenyListAndBuiltinsDisjoint ==
    /\ pc = "undo_push" => exec_globals.builtins \cap DeniedCallees = {}
    /\ (Validated /\ code.parses) =>
           \A b \in allowed_builtins :
               code.tree = Module(<<Expr(Call(Name(b), <<>>))>>) => verdict.is_safe

\* C25: a result whose message starts with "Code execution timed out" is
\* returned only for runs whose timer fired before the code finished; a run
\* that ends before the deadline is never reported as timed out, whatever
\* exception it raised
C25_TimedOutOnlyWhenTimerFired ==
    (pc = "returned" /\ result.message # <<>>
       /\ result.message[1] = "Code execution timed out: ") =>
        timer.state \in {"expired", "fired"}

\* C26 as claimed: the timer is cancelled on every exit from the guarded
\* block, so once execute_code has returned no timer of the call is armed
\* and its handler does not run afterwards; at most one timer is armed per
\* call in flight
C26_NoHandlerAfterReturn ==
    /\ timer.state = "armed" => pc = "exec"
    /\ (Ended /\ log.ran) => timer.state \in {"cancelled", "fired"}

\* C26 as amended: the timer is cancelled on every exit from the guarded
\* block, so a timer is waiting only while the code runs and none is waiting
\* once execute_code has ended; a timer that had expired before the cancel is
\* not stopped by it, and its handler may run after the call
C26_NoTimerWaitingAfterExit ==
    /\ timer.state = "armed" => pc = "exec"
    /\ (Ended /\ log.ran) => timer.state \in {"cancelled", "expired", "fired"}
    /\ timer.state = "cancelled" => timer_thread = "none"

C26_Witness ==
    /\ pc = "returned"
    /\ log.raised = "ValueError"
    /\ timer.state = "cancelled"
    /\ timer_thread = "none"

RefreshError == HostError("view layer update failed")

MaxOps == 2
MaxRuns == 1

Whitespace == {" ", "\n", "\t"}

\* str.strip(): the text without its leading and trailing whitespace
RECURSIVE lstrip(_)
lstrip(s) ==
    IF s = <<>> THEN <<>>
    ELSE IF Head(s) \in Whitespace THEN lstrip(Tail(s))
    ELSE s

RECURSIVE rstrip(_)
rstrip(s) ==
    IF s = <<>> THEN <<>>
    ELSE IF s[Len(s)] \in Whitespace THEN rstrip(SubSeq(s, 1, Len(s) - 1))
    ELSE s

strip(s) == rstrip(lstrip(s))

\* `not text or not text.strip()`
is_blank(text) == text = <<>> \/ strip(text) = <<>>

\* the texts a scene holds as generated code, and what ast.parse makes of
\* each: print(x) is accepted by the validator, import os is rejected, and
\* on hasattr() the validator raises
PrintCode == <<"print(x)">>
ImportCode == <<"import os">>
HasattrCode == <<"hasattr()">>
BlankCode == <<" ", "\n">>

StoredCodes == {<<>>, BlankCode, PrintCode, ImportCode, HasattrCode}

ast_parse(text) ==
    CASE text = PrintCode -> Source(TRUE, Module(<<Expr(Call(Name(Id("print")), <<X>>))>>))
      [] text = ImportCode -> Source(TRUE, Module(<<Import>>))
      [] text = HasattrCode -> Source(TRUE, Module(<<Expr(Call(Name(Id("hasattr")), <<>>))>>))
      [] OTHER -> Source(FALSE, Module(<<>>))

\* one entry of the log: f"[{timestamp}] ..." with the text that follows
LogEntry(text) == [timestamp |-> "HH:MM:SS", text |-> text]

Prompts == {<<>>, <<"add a cube">>}
Feedbacks == {<<>>, <<"make it bigger">>}
\* the provider chosen in the preferences and the API key stored for it
Accounts ==
    { [ai_provider |-> "openai", api_key |-> <<>>],
      [ai_provider |-> "openai", api_key |-> <<"sk-1">>],
      [ai_provider |-> "local", api_key |-> <<>>] }

\* what the provider does with a request: it answers with a text, or the
\* request fails, or the user interrupts it
Answer(text) == [asked |-> TRUE, raised |-> "None", text |-> text]
AIBackendError == [asked |-> TRUE, raised |-> "AIBackendError", text |-> <<>>]
KeyboardInterrupt == [asked |-> TRUE, raised |-> "KeyboardInterrupt", text |-> <<>>]
NoResponse == [asked |-> FALSE, raised |-> "None", text |-> <<>>]

BackendOutcomes ==
    {Answer(<<>>), Answer(<<"\n">>), Answer(PrintCode), AIBackendError, KeyboardInterrupt}

\* whether `except Exception` catches what the request raised
Caught(response) == IsSubclass(response.raised, "Exception")
Escapes(response) == response.raised # "None" /\ ~Caught(response)

\* AIClient.generate_code: a backend that is none of the provider names
\* is refused
generate_code(backend, outcome) ==
    IF backend \in {"openai", "anthropic", "gemini", "local"} THEN outcome
    ELSE AIBackendError

\* the API key check of lines 29-41 and 477-489
key_missing == ui.ai_provider # "local" /\ is_blank(ui.api_key)

\* preferences.py defines no auto_execute_code: hasattr on lines 101 and 524
\* is False
auto_execute_code == FALSE

InitOperators ==
    /\ code = Source(FALSE, Module(<<>>))
    /\ pc = "idle"
    /\ verdict = NoVerdict
    /\ exec_globals = NoGlobals
    /\ old_stdout = "None"
    /\ captured_output = <<>>
    /\ ret = NoResult
    /\ exc = NoExc
    /\ result = NoResult
    /\ sys_stdout = "console"
    /\ console = <<>>
    /\ scene \in InitScenes
    /\ undo_stack = <<[message |-> "Original", state |-> scene]>>
    /\ timer = [state |-> "unset", delay |-> 0]
    /\ timer_thread = "none"
    /\ entry = [scene |-> scene, stdout |-> sys_stdout]
    /\ log = NoLog
    /\ self = init_self
    /\ calls = FirstCall
    /\ \E p \in Prompts, c \in StoredCodes, a \in Accounts :
        ui = [NoUi EXCEPT !.ai_prompt = p, !.ai_generated_code = c,
                          !.ai_last_output = <<LogEntry("GENERATION SUCCESS")>>,
                          !.ai_provider = a.ai_provider, !.api_key = a.api_key]
    /\ op = NoOp

\* an execute begins: what it finds in the scene
Begun(name) ==
    [op EXCEPT !.name = name, !.ret = "None", !.called = FALSE,
               !.response = NoResponse,
               !.code0 = ui.ai_generated_code, !.log0 = ui.ai_last_output]

Returned(o, value) == [o EXCEPT !.pc = "returned", !.ret = value]
Raised(o) == [o EXCEPT !.pc = "raised", !.ret = "None"]

ExecutorIdle == UNCHANGED <<self, calls, code, pc, verdict, exec_globals, old_stdout,
                            captured_output, ret, exc, result, sys_stdout, console,
                            scene, undo_stack, timer, timer_thread, entry, log>>

\* AI_OT_GenerateCode.execute up to the request (lines 16-74); log_raises:
\* the write of the log on line 70 raises, which the handler of line 106
\* catches
GenerateCodeBegin ==
    /\ op.pc = "idle"
    /\ \E log_raises \in BOOLEAN :
        IF is_blank(ui.ai_prompt) \/ key_missing
        THEN /\ op' = Returned(Begun("generate"), "CANCELLED")
             /\ UNCHANGED ui
        ELSE IF ~log_raises
        THEN /\ ui' = [ui EXCEPT !.ai_is_generating = TRUE,
                                 !.ai_last_output = Append(@, LogEntry("GENERATION STARTED"))]
             /\ op' = [Begun("generate") EXCEPT !.pc = "request"]
        ELSE /\ ui' = [ui EXCEPT !.ai_is_generating = FALSE,
                                 !.ai_last_output = Append(@, LogEntry("GENERATION ERROR"))]
             /\ op' = Returned(Begun("generate"), "CANCELLED")
    /\ ExecutorIdle

\* AI_OT_GenerateCode.execute from the response on (lines 74-130);
\* log_raises: the write of the log on line 96 raises
GenerateCodeEnd ==
    /\ op.pc = "request"
    /\ op.name = "generate"
    /\ \E outcome \in BackendOutcomes, log_raises \in BOOLEAN :
        LET response == generate_code(ui.ai_provider, outcome) IN
        IF Escapes(response)
        THEN /\ op' = Raised([op EXCEPT !.response = response])
             /\ UNCHANGED ui
        ELSE IF Caught(response)
        THEN /\ ui' = [ui EXCEPT !.ai_is_generating = FALSE,
                                 !.ai_last_output = Append(@, LogEntry("GENERATION ERROR"))]
             /\ op' = Returned([op EXCEPT !.response = response], "CANCELLED")
        ELSE IF is_blank(response.text)
        THEN /\ ui' = [ui EXCEPT !.ai_is_generating = FALSE,
                                 !.ai_last_output = Append(@, LogEntry("GENERATION FAILED"))]
             /\ op' = Returned([op EXCEPT !.response = response], "CANCELLED")
        ELSE IF log_raises
        THEN /\ ui' = [ui EXCEPT !.ai_is_generating = FALSE,
                                 !.ai_generated_code = response.text,
                                 !.ai_last_output = Append(@, LogEntry("GENERATION ERROR"))]
             /\ op' = Returned([op EXCEPT !.response = response], "CANCELLED")
        ELSE /\ ui' = [ui EXCEPT !.ai_is_generating = FALSE,
                                 !.ai_generated_code = response.text,
                                 !.ai_last_output = Append(@, LogEntry("GENERATION SUCCESS"))]
             /\ op' = Returned([op EXCEPT !.response = response],
                               IF auto_execute_code THEN "CANCELLED" ELSE "FINISHED")
    /\ ExecutorIdle

\* AI_OT_RegenerateCode.execute up to the request (lines 464-512)
RegenerateCodeBegin ==
    /\ op.pc = "idle"
    /\ IF is_blank(ui.ai_prompt) \/ key_missing
       THEN op' = Returned(Begun("regenerate"), "CANCELLED")
       ELSE op' = [Begun("regenerate") EXCEPT !.pc = "request"]
    /\ UNCHANGED ui
    /\ ExecutorIdle

\* RegenerateCodeEnd, had line 519 stood before the test of line 514
RegenerateCodeEndStoresAnyAnswer ==
    /\ op.pc = "request"
    /\ op.name = "regenerate"
    /\ \E outcome \in BackendOutcomes :
        LET response == generate_code(ui.ai_provider, outcome) IN
        IF Escapes(response)
        THEN /\ op' = Raised([op EXCEPT !.response = response])
             /\ UNCHANGED ui
        ELSE IF Caught(response)
        THEN /\ op' = Returned([op EXCEPT !.response = response], "CANCELLED")
             /\ UNCHANGED ui
        ELSE /\ ui' = [ui EXCEPT !.ai_generated_code = response.text]
             /\ op' = Returned([op EXCEPT !.response = response],
                               IF is_blank(response.text) THEN "CANCELLED" ELSE "FINISHED")
    /\ ExecutorIdle

\* AI_OT_RegenerateCode.execute from the response on (lines 512-544)
RegenerateCodeEnd ==
    /\ op.pc = "request"
    /\ op.name = "regenerate"
    /\ \E outcome \in BackendOutcomes :
        LET response == generate_code(ui.ai_provider, outcome) IN
        IF Escapes(response)
        THEN /\ op' = Raised([op EXCEPT !.response = response])
             /\ UNCHANGED ui
        ELSE IF Caught(response) \/ is_blank(response.text)
        THEN /\ op' = Returned([op EXCEPT !.response = response], "CANCELLED")
             /\ UNCHANGED ui
        ELSE /\ ui' = [ui EXCEPT !.ai_generated_code = response.text]
             /\ op' = Returned([op EXCEPT !.response = response],
                               IF auto_execute_code THEN "CANCELLED" ELSE "FINISHED")
    /\ ExecutorIdle

\* AI_OT_RefineCode.execute up to the request (lines 332-377); feedback is
\* the operator's property the dialog filled in
RefineCodeBegin ==
    /\ op.pc = "idle"
    /\ \E feedback \in Feedbacks :
        IF is_blank(ui.ai_generated_code) \/ is_blank(feedback)
        THEN op' = Returned(Begun("refine"), "CANCELLED")
        ELSE op' = [Begun("refine") EXCEPT !.pc = "request"]
    /\ UNCHANGED ui
    /\ ExecutorIdle

\* AI_OT_RefineCode.execute from the response on (lines 377-391)
RefineCodeEnd ==
    /\ op.pc = "request"
    /\ op.name = "refine"
    /\ \E outcome \in BackendOutcomes :
        LET response == generate_code(ui.ai_provider, outcome) IN
        IF Escapes(response)
        THEN /\ op' = Raised([op EXCEPT !.response = response])
             /\ UNCHANGED ui
        ELSE IF Caught(response) \/ is_blank(response.text)
        THEN /\ op' = Returned([op EXCEPT !.response = response], "CANCELLED")
             /\ UNCHANGED ui
        ELSE /\ ui' = [ui EXCEPT !.ai_generated_code = response.text]
             /\ op' = Returned([op EXCEPT !.response = response], "FINISHED")
    /\ ExecutorIdle

\* AI_OT_TestConnection.execute up to the request (lines 613-629): the flag
\* is set on line 618 and the log written on line 622, both before the try
\* of line 624; log_raises: the write of line 622 raises
TestConnectionBegin ==
    /\ op.pc = "idle"
    /\ \E log_raises \in BOOLEAN :
        IF log_raises
        THEN /\ ui' = [ui EXCEPT !.ai_is_generating = TRUE]
             /\ op' = Raised(Begun("test"))
        ELSE /\ ui' = [ui EXCEPT !.ai_is_generating = TRUE,
                                 !.ai_last_output = Append(@, LogEntry("Testing connection"))]
             /\ op' = [Begun("test") EXCEPT !.pc = "request"]
    /\ ExecutorIdle

\* AI_OT_TestConnection.execute from the response on (lines 629-657): the
\* request is made with the context as its backend; log_raises: the write
\* of the log on line 632, 635 or 641 raises; the finally clause runs
\* whatever is raised
TestConnectionEnd ==
    /\ op.pc = "request"
    /\ op.name = "test"
    /\ \E outcome \in BackendOutcomes, log_raises \in BOOLEAN :
        LET response == generate_code("context", outcome)
            line == IF Caught(response) THEN "Connection test failed"
                    ELSE IF response.text = <<"Connection successful">>
                    THEN "Connection test passed"
                    ELSE "unexpected response"
        IN  IF Escapes(response) \/ log_raises
            THEN /\ ui' = [ui EXCEPT !.ai_is_generating = FALSE]
                 /\ op' = Raised([op EXCEPT !.response = response])
            ELSE /\ ui' = [ui EXCEPT !.ai_is_generating = FALSE,
                                     !.ai_last_output = Append(@, LogEntry(line))]
                 /\ op' = Returned([op EXCEPT !.response = response], "FINISHED")
    /\ ExecutorIdle

\* AI_OT_ExecuteCode.execute up to the call of the executor (lines 138-149);
\* the executor is called at most MaxRuns times in a behaviour
ExecuteCodeBegin ==
    /\ op.pc = "idle"
    /\ is_blank(ui.ai_generated_code) \/ op.runs < MaxRuns
    /\ IF is_blank(ui.ai_generated_code)
       THEN /\ op' = Returned(Begun("execute"), "CANCELLED")
            /\ ExecutorIdle
       ELSE /\ op' = [Begun("execute") EXCEPT !.pc = "executing", !.called = TRUE,
                                               !.runs = @ + 1]
            /\ code' = ast_parse(ui.ai_generated_code)
            /\ pc' = "idle"
            /\ verdict' = NoVerdict
            /\ exec_globals' = NoGlobals
            /\ old_stdout' = "None"
            /\ captured_output' = <<>>
            /\ ret' = NoResult
            /\ exc' = NoExc
            /\ result' = NoResult
            /\ timer' = [state |-> "unset", delay |-> 0]
            /\ timer_thread' = "none"
            /\ entry' = [scene |-> scene, stdout |-> sys_stdout]
            /\ log' = NoLog
            /\ UNCHANGED <<self, calls, sys_stdout, console, scene, undo_stack>>
    /\ UNCHANGED ui

\* code_executor.execute_code(code), called on line 149
ExecuteCodeCall ==
    /\ op.pc = "executing"
    /\ Next

\* AI_OT_ExecuteCode.execute from the executor's return on (lines 149-196);
\* summary_raises: the preferences lookup of line 167 or get_diff_summary
\* raises, which the handler of line 187 catches
ExecuteCodeEnd ==
    /\ op.pc = "executing"
    /\ pc \in {"returned", "raised"}
    /\ \E summary_raises \in BOOLEAN, diff_summary \in {<<"No significant changes detected.">>,
                                                       <<"CHANGES SUMMARY:", "\n", "Added objects">>} :
        IF pc = "raised"
        THEN IF IsSubclass(exc.cls, "Exception")
             THEN /\ ui' = [ui EXCEPT !.ai_last_output = Append(@, LogEntry("EXCEPTION"))]
                  /\ op' = Returned(op, "CANCELLED")
             ELSE /\ op' = Raised(op)
                  /\ UNCHANGED ui
        ELSE LET logged == Append(ui.ai_last_output,
                                  LogEntry(IF result.success THEN "Execution SUCCESS"
                                           ELSE "Execution FAILED"))
             IN  IF ~result.success
                 THEN /\ ui' = [ui EXCEPT !.ai_last_output = logged]
                      /\ op' = Returned(op, "CANCELLED")
                 ELSE IF summary_raises
                 THEN /\ ui' = [ui EXCEPT !.ai_last_output = Append(logged, LogEntry("EXCEPTION"))]
                      /\ op' = Returned(op, "CANCELLED")
                 ELSE /\ ui' = [ui EXCEPT !.ai_last_output = logged,
                                          !.ai_diff_summary =
                                              IF /\ ui.enable_diff_summary
                                                 /\ diff_summary # <<"No significant changes detected.">>
                                              THEN diff_summary ELSE @]
                      /\ op' = Returned(op, "FINISHED")
    /\ ExecutorIdle

\* the next operator the user runs; the locals of the call of execute_code
\* that has ended are gone
NextOperator ==
    /\ op.pc \in {"returned", "raised"}
    /\ op.n < MaxOps
    /\ op' = [op EXCEPT !.n = @ + 1, !.pc = "idle"]
    /\ code' = Source(FALSE, Module(<<>>))
    /\ pc' = "idle"
    /\ verdict' = NoVerdict
    /\ exec_globals' = NoGlobals
    /\ old_stdout' = "None"
    /\ captured_output' = <<>>
    /\ ret' = NoResult
    /\ exc' = NoExc
    /\ result' = NoResult
    /\ timer' = [state |-> "unset", delay |-> 0]
    /\ entry' = [scene |-> scene, stdout |-> sys_stdout]
    /\ log' = NoLog
    /\ UNCHANGED <<ui, self, calls, sys_stdout, console, scene, undo_stack, timer_thread>>

NextOperators ==
    \/ GenerateCodeBegin
    \/ GenerateCodeEnd
    \/ RegenerateCodeBegin
    \/ RegenerateCodeEnd
    \/ RefineCodeBegin
    \/ RefineCodeEnd
    \/ TestConnectionBegin
    \/ TestConnectionEnd
    \/ ExecuteCodeBegin
    \/ ExecuteCodeCall
    \/ ExecuteCodeEnd
    \/ NextOperator

SpecOperators == InitOperators /\ [][NextOperators]_vars

\* the operator named has ended: its execute returned or raised
OperatorEnded(names) == op.name \in names /\ op.pc \in {"returned", "raised"}

\* the entries the running operator has appended to the log
Appended == SubSeq(ui.ai_last_output, Len(op.log0) + 1, Len(ui.ai_last_output))

\* C28: AI_OT_ExecuteCode.execute returns FINISHED if and only if
\* execute_code returned success = True; on empty or whitespace code it
\* returns CANCELLED without calling the executor; when the executor was
\* called it appends exactly one timestamped entry to the log, and it never
\* shortens the log
C28_FinishedIffExecutorSucceeded ==
    OperatorEnded({"execute"}) =>
        /\ (op.ret = "FINISHED") <=> (op.called /\ pc = "returned" /\ result.success)
        /\ is_blank(op.code0) => (op.ret = "CANCELLED" /\ ~op.called)
        /\ Len(ui.ai_last_output) >= Len(op.log0)
        /\ SubSeq(ui.ai_last_output, 1, Len(op.log0)) = op.log0
        /\ op.called => Len(Appended) = 1

\* C28 where the executor returned and the lookup of the diff summary did
\* not raise
C28_FinishedIffExecutorSucceededWhenNothingRaises ==
    (/\ OperatorEnded({"execute"})
     /\ op.called => pc = "returned"
     /\ Len(Appended) > 0 => Appended[Len(Appended)].text # "EXCEPTION") =>
        /\ (op.ret = "FINISHED") <=> (op.called /\ result.success)
        /\ is_blank(op.code0) => (op.ret = "CANCELLED" /\ ~op.called)
        /\ SubSeq(ui.ai_last_output, 1, Len(op.log0)) = op.log0
        /\ op.called => Len(Appended) = 1

\* C29: scene.ai_is_generating is False whenever an operator's execute has
\* ended, returned or raised, and it is True only while the request of
\* AI_OT_GenerateCode or AI_OT_TestConnection is in flight
C29_FlagClearAfterOperator ==
    /\ op.pc \in {"returned", "raised"} => ~ui.ai_is_generating
    /\ ui.ai_is_generating => (op.pc = "request" /\ op.name \in {"generate", "test"})

\* C29 for AI_OT_GenerateCode alone, no connection test having run, when
\* the request is not interrupted
C29_FlagClearAfterGenerateCode ==
    (op.n = 1 /\ op.name = "generate" /\ ~Escapes(op.response)) =>
        /\ op.pc \in {"returned", "raised"} => ~ui.ai_is_generating
        /\ ui.ai_is_generating => op.pc = "request"

\* the request was not made, or failed, or its answer was empty or
\* whitespace
GenerationFailed ==
    \/ ~op.response.asked
    \/ op.response.raised # "None"
    \/ is_blank(op.response.text)

\* C30: when AI_OT_GenerateCode, AI_OT_RegenerateCode or AI_OT_RefineCode
\* ends with CANCELLED because of a missing prompt or feedback, a missing
\* API key, a backend error or an empty or whitespace response, the stored
\* code is what it was before the operator ran; the stored code changes
\* only to a non-empty response
C30_FailedGenerationKeepsCode ==
    (op.name \in {"generate", "regenerate", "refine"} /\ op.pc = "returned") =>
        /\ (op.ret = "CANCELLED" /\ GenerationFailed) => ui.ai_generated_code = op.code0
        /\ ui.ai_generated_code # op.code0 =>
              /\ ~GenerationFailed
              /\ ui.ai_generated_code = op.response.text

C30_Witness ==
    /\ op.name = "regenerate"
    /\ op.pc = "returned"
    /\ op.ret = "CANCELLED"
    /\ op.response = Answer(<<"\n">>)
    /\ op.code0 = ImportCode
    /\ ui.ai_generated_code = ImportCode

====
